---------------------------- MODULE Spec2Model ----------------------------
(***************************************************************************)
(* Model of backend.py: the /upload and /analyze request pipeline of the   *)
(* VERTA meeting analyzer (validation, provider upload, poll loop,         *)
(* generation, response clean-up and JSON parsing, fallback to the sample  *)
(* analysis).                                                              *)
(*                                                                         *)
(* Python strings are sequences of one-character strings, so that          *)
(* Path.suffix, str.lower, str.strip, startswith/endswith, find/rfind,     *)
(* slicing and json.loads are computed character by character.             *)
(***************************************************************************)
EXTENDS Integers, Sequences, FiniteSets, TLC

(***************************************************************************)
(* Python str helpers                                                      *)
(***************************************************************************)

\* s[i:j] of Python with 0 <= i, j <= len(s), written with 1-based bounds:
\* the characters at 1-based positions a..b (empty when a > b).
Slice(s, a, b) == IF a > b THEN << >> ELSE SubSeq(s, a, b)

\* str.startswith(prefix)
StartsWith(s, p) == Len(s) >= Len(p) /\ SubSeq(s, 1, Len(p)) = p

\* str.endswith(suffix)
EndsWith(s, p) == Len(s) >= Len(p) /\ SubSeq(s, Len(s) - Len(p) + 1, Len(s)) = p

\* str.find(c) for a one-character c: the 0-based index of the first
\* occurrence, -1 when there is none.
Find(s, c) ==
    IF \E i \in 1..Len(s) : s[i] = c
    THEN (CHOOSE i \in 1..Len(s) : s[i] = c /\ \A j \in 1..(i - 1) : s[j] # c) - 1
    ELSE -1

\* str.rfind(c) for a one-character c: the 0-based index of the last
\* occurrence, -1 when there is none.
RFind(s, c) ==
    IF \E i \in 1..Len(s) : s[i] = c
    THEN (CHOOSE i \in 1..Len(s) : s[i] = c /\ \A j \in (i + 1)..Len(s) : s[j] # c) - 1
    ELSE -1

\* The whitespace characters that occur in the modelled texts.
Whitespace == {" ", "\n", "\t", "\r"}

\* str.strip(): leading and trailing whitespace removed.
Strip(s) ==
    IF \A i \in 1..Len(s) : s[i] \in Whitespace THEN << >>
    ELSE LET a == CHOOSE i \in 1..Len(s) :
                    s[i] \notin Whitespace /\ \A j \in 1..(i - 1) : s[j] \in Whitespace
             b == CHOOSE i \in 1..Len(s) :
                    s[i] \notin Whitespace /\ \A j \in (i + 1)..Len(s) : s[j] \in Whitespace
         IN  SubSeq(s, a, b)

UpperCase == <<"A","B","C","D","E","F","G","H","I","J","K","L","M",
               "N","O","P","Q","R","S","T","U","V","W","X","Y","Z">>
LowerCase == <<"a","b","c","d","e","f","g","h","i","j","k","l","m",
               "n","o","p","q","r","s","t","u","v","w","x","y","z">>

\* str.lower() on one character.
LowerChar(c) ==
    IF \E i \in 1..26 : UpperCase[i] = c
    THEN LowerCase[CHOOSE i \in 1..26 : UpperCase[i] = c]
    ELSE c

\* str.lower()
Lower(s) == [i \in 1..Len(s) |-> LowerChar(s[i])]

\* str.lstrip('.'): leading dots removed.
LStripDot(s) ==
    IF \A i \in 1..Len(s) : s[i] = "." THEN << >>
    ELSE LET a == CHOOSE i \in 1..Len(s) :
                    s[i] # "." /\ \A j \in 1..(i - 1) : s[j] = "."
         IN  SubSeq(s, a, Len(s))

\* PurePath.name: the final path component (what follows the last "/").
PathName(filename) ==
    LET k == RFind(filename, "/") + 1
    IN  Slice(filename, k + 1, Len(filename))

\* PurePath.suffix: the name from its last dot on, when that dot is neither
\* the first nor the last character of the name; "" otherwise.
PathSuffix(filename) ==
    LET name == PathName(filename)
        i    == RFind(name, ".")
    IN  IF 0 < i /\ i < Len(name) - 1
        THEN SubSeq(name, i + 1, Len(name))
        ELSE << >>

\* Path(file.filename).suffix.lower().lstrip('.')
FileExt(filename) == LStripDot(Lower(PathSuffix(filename)))


(***************************************************************************)
(* JSON values and json.loads                                              *)
(*                                                                         *)
(* A Python value produced by json.loads is a record [t, n, s, a, o]: t is *)
(* the Python type, and the field that type uses holds the value (n: int   *)
(* or bool as 0/1, s: str, a: list, o: dict as a function from keys).      *)
(***************************************************************************)

EmptyMap == [k \in {} |-> 0]

JNull    == [t |-> "null", n |-> 0, s |-> << >>, a |-> << >>, o |-> EmptyMap]
JBool(b) == [t |-> "bool", n |-> IF b THEN 1 ELSE 0, s |-> << >>, a |-> << >>, o |-> EmptyMap]
JNum(k)  == [t |-> "int",  n |-> k, s |-> << >>, a |-> << >>, o |-> EmptyMap]
JStr(x)  == [t |-> "str",  n |-> 0, s |-> x,     a |-> << >>, o |-> EmptyMap]
JArr(x)  == [t |-> "list", n |-> 0, s |-> << >>, a |-> x,     o |-> EmptyMap]
JObj(m)  == [t |-> "dict", n |-> 0, s |-> << >>, a |-> << >>, o |-> m]

\* d[key] = val on a dict's mapping (a later value for a key replaces an
\* earlier one).
Put(m, key, val) ==
    [k \in (DOMAIN m) \cup {key} |-> IF k = key THEN val ELSE m[k]]

\* Python truthiness, as tested by `if result:` and `if not response.text:`.
Truthy(v) ==
    CASE v.t = "null" -> FALSE
      [] v.t = "bool" -> v.n = 1
      [] v.t = "int"  -> v.n # 0
      [] v.t = "str"  -> Len(v.s) > 0
      [] v.t = "list" -> Len(v.a) > 0
      [] v.t = "dict" -> DOMAIN v.o # {}

Digits == <<"0","1","2","3","4","5","6","7","8","9">>
IsDigit(c) == \E d \in 1..10 : Digits[d] = c
DigitVal(c) == (CHOOSE d \in 1..10 : Digits[d] = c) - 1

\* The result of a scanning step: whether it matched, the value, and the
\* 1-based position of the next unread character.
ParseFail == [ok |-> FALSE, v |-> JNull, i |-> 0]
ParseOk(v, i) == [ok |-> TRUE, v |-> v, i |-> i]

\* json.decoder WHITESPACE.match(s, i).end(): the first position at or after
\* i that holds no JSON whitespace.
RECURSIVE SkipWs(_, _)
SkipWs(s, i) ==
    IF i <= Len(s) /\ s[i] \in Whitespace THEN SkipWs(s, i + 1) ELSE i

\* scanstring: i is the position after the opening quote. The string ends at
\* the next quote; a control character before it is an error (strict mode).
\* The modelled texts hold no backslash, so no escape is decoded.
RECURSIVE ScanString(_, _, _)
ScanString(s, i, acc) ==
    IF i > Len(s) THEN ParseFail
    ELSE IF s[i] = "\"" THEN ParseOk(JStr(acc), i + 1)
    ELSE IF s[i] \in {"\n", "\t", "\r"} THEN ParseFail
    ELSE ScanString(s, i + 1, Append(acc, s[i]))

\* NUMBER_RE.match: 0 | [1-9][0-9]*. The modelled texts hold integers only
\* (no sign, fraction or exponent).
RECURSIVE ScanDigits(_, _, _)
ScanDigits(s, i, acc) ==
    IF i <= Len(s) /\ IsDigit(s[i])
    THEN ScanDigits(s, i + 1, 10 * acc + DigitVal(s[i]))
    ELSE ParseOk(JNum(acc), i)

ScanNumber(s, i) ==
    IF s[i] = "0" THEN ParseOk(JNum(0), i + 1) ELSE ScanDigits(s, i, 0)

LitAt(s, i, lit) ==
    i + Len(lit) - 1 <= Len(s) /\ SubSeq(s, i, i + Len(lit) - 1) = lit

\* scan_once, JSONObject and JSONArray of json.scanner / json.decoder.
RECURSIVE ScanOnce(_, _), JSONObject(_, _, _), JSONArray(_, _, _)
ScanOnce(s, i) ==
    IF i > Len(s) THEN ParseFail
    ELSE IF s[i] = "\"" THEN ScanString(s, i + 1, << >>)
    ELSE IF s[i] = "{" THEN
        LET j == SkipWs(s, i + 1)
        IN  IF j <= Len(s) /\ s[j] = "}" THEN ParseOk(JObj(EmptyMap), j + 1)
            ELSE JSONObject(s, j, EmptyMap)
    ELSE IF s[i] = "[" THEN
        LET j == SkipWs(s, i + 1)
        IN  IF j <= Len(s) /\ s[j] = "]" THEN ParseOk(JArr(<< >>), j + 1)
            ELSE JSONArray(s, j, << >>)
    ELSE IF LitAt(s, i, <<"n","u","l","l">>) THEN ParseOk(JNull, i + 4)
    ELSE IF LitAt(s, i, <<"t","r","u","e">>) THEN ParseOk(JBool(TRUE), i + 4)
    ELSE IF LitAt(s, i, <<"f","a","l","s","e">>) THEN ParseOk(JBool(FALSE), i + 5)
    ELSE IF IsDigit(s[i]) THEN ScanNumber(s, i)
    ELSE ParseFail

\* i is where the next member's key must start; acc holds the members read.
JSONObject(s, i, acc) ==
    IF i > Len(s) \/ s[i] # "\"" THEN ParseFail
    ELSE LET key == ScanString(s, i + 1, << >>)
         IN  IF ~key.ok THEN ParseFail
             ELSE LET c == SkipWs(s, key.i)
                  IN  IF c > Len(s) \/ s[c] # ":" THEN ParseFail
                      ELSE LET val == ScanOnce(s, SkipWs(s, c + 1))
                           IN  IF ~val.ok THEN ParseFail
                               ELSE LET m == Put(acc, key.v.s, val.v)
                                        e == SkipWs(s, val.i)
                                    IN  IF e > Len(s) THEN ParseFail
                                        ELSE IF s[e] = "}" THEN ParseOk(JObj(m), e + 1)
                                        ELSE IF s[e] = ","
                                             THEN JSONObject(s, SkipWs(s, e + 1), m)
                                        ELSE ParseFail

\* i is where the next element starts; acc holds the elements read.
JSONArray(s, i, acc) ==
    LET val == ScanOnce(s, i)
    IN  IF ~val.ok THEN ParseFail
        ELSE LET e == SkipWs(s, val.i)
             IN  IF e > Len(s) THEN ParseFail
                 ELSE IF s[e] = "]" THEN ParseOk(JArr(Append(acc, val.v)), e + 1)
                 ELSE IF s[e] = ","
                      THEN JSONArray(s, SkipWs(s, e + 1), Append(acc, val.v))
                 ELSE ParseFail

\* json.loads(s): one value with optional whitespace around it; anything
\* after it is "Extra data". ok = FALSE stands for json.JSONDecodeError.
JsonLoads(s) ==
    LET r == ScanOnce(s, SkipWs(s, 1))
    IN  IF r.ok /\ SkipWs(s, r.i) = Len(s) + 1 THEN r ELSE ParseFail


(***************************************************************************)
(* Configuration and string constants of backend.py                       *)
(***************************************************************************)

\* MAX_FILE_SIZE = 100 * 1024 * 1024
MAX_FILE_SIZE == 100 * 1024 * 1024

\* max_wait = 120 and the asyncio.sleep(2) / wait_time += 2 of the poll loop.
max_wait == 120
POLL_INTERVAL == 2
EXT_mp3 == <<"m","p","3">>
EXT_wav == <<"w","a","v">>
EXT_mp4 == <<"m","p","4">>
EXT_mov == <<"m","o","v">>
EXT_avi == <<"a","v","i">>
EXT_webm == <<"w","e","b","m">>

\* ALLOWED_EXTENSIONS = {'mp3', 'wav', 'mp4', 'mov', 'avi', 'webm'}
ALLOWED_EXTENSIONS == {EXT_mp3, EXT_wav, EXT_mp4, EXT_mov, EXT_avi, EXT_webm}

\* The order in which the set literal is written in the source.
WrittenOrder == <<EXT_mp3, EXT_wav, EXT_mp4, EXT_mov, EXT_avi, EXT_webm>>

\* A Python set of str has no fixed iteration order: str hashes are salted
\* per process (PYTHONHASHSEED), so a process can iterate the set in any
\* order, the same one for the life of the process.
SetOrders ==
    {o \in [1..6 -> ALLOWED_EXTENSIONS] : \A i, j \in 1..6 : i # j => o[i] # o[j]}

\* sep.join(parts)
RECURSIVE Join(_, _)
Join(sep, parts) ==
    IF Len(parts) = 0 THEN << >>
    ELSE IF Len(parts) = 1 THEN parts[1]
    ELSE parts[1] \o sep \o Join(sep, Tail(parts))

\* str(n) for n >= 0
RECURSIVE IntToStr(_)
IntToStr(n) ==
    IF n < 10 THEN <<Digits[n + 1]>>
    ELSE IntToStr(n \div 10) \o <<Digits[(n % 10) + 1]>>

\* 'No file provided'
MSG_NoFile ==
    <<"N","o"," ","f","i","l","e"," ","p","r","o","v","i","d","e","d">>
\* 'No filename provided'
MSG_NoFilename ==
    <<"N","o"," ","f","i","l","e","n","a","m","e"," ","p","r","o","v","i",
      "d","e","d">>
\* 'File type not supported. Allowed: '
MSG_TypePrefix ==
    <<"F","i","l","e"," ","t","y","p","e"," ","n","o","t"," ","s","u","p",
      "p","o","r","t","e","d","."," ","A","l","l","o","w","e","d",":"," ">>
\* 'File too large. Maximum size: '
MSG_SizePrefix ==
    <<"F","i","l","e"," ","t","o","o"," ","l","a","r","g","e","."," ","M",
      "a","x","i","m","u","m"," ","s","i","z","e",":"," ">>

\* f"File type not supported. Allowed: {', '.join(ALLOWED_EXTENSIONS)}" when
\* the set iterates in the given order.
TypeDetail(order) == MSG_TypePrefix \o Join(<<",", " ">>, order)

\* f"File too large. Maximum size: {MAX_FILE_SIZE // (1024*1024)}MB"
SizeDetail == MSG_SizePrefix \o IntToStr(MAX_FILE_SIZE \div (1024 * 1024)) \o <<"M", "B">>

K_segments ==
    <<"s","e","g","m","e","n","t","s">>
K_engagement_score ==
    <<"e","n","g","a","g","e","m","e","n","t","_","s","c","o","r","e">>
K_meeting_summary ==
    <<"m","e","e","t","i","n","g","_","s","u","m","m","a","r","y">>
K_action_items ==
    <<"a","c","t","i","o","n","_","i","t","e","m","s">>
K_improvement_suggestions ==
    <<"i","m","p","r","o","v","e","m","e","n","t","_","s","u","g","g","e",
      "s","t","i","o","n","s">>
K_analysis_type ==
    <<"a","n","a","l","y","s","i","s","_","t","y","p","e">>
K_file_info ==
    <<"f","i","l","e","_","i","n","f","o">>
K_filename ==
    <<"f","i","l","e","n","a","m","e">>
K_processed_at ==
    <<"p","r","o","c","e","s","s","e","d","_","a","t">>
K_score ==
    <<"s","c","o","r","e">>
K_speaker ==
    <<"s","p","e","a","k","e","r">>
K_file_id ==
    <<"f","i","l","e","_","i","d">>
K_size ==
    <<"s","i","z","e">>
K_status ==
    <<"s","t","a","t","u","s">>
K_message ==
    <<"m","e","s","s","a","g","e">>

\* 'Real AI Analysis'
REAL_AI ==
    <<"R","e","a","l"," ","A","I"," ","A","n","a","l","y","s","i","s">>
\* 'Sample Analysis (AI Unavailable)'
SAMPLE_AI ==
    <<"S","a","m","p","l","e"," ","A","n","a","l","y","s","i","s"," ","(",
      "A","I"," ","U","n","a","v","a","i","l","a","b","l","e",")">>
\* 'AI-Powered Analysis'
AI_POWERED ==
    <<"A","I","-","P","o","w","e","r","e","d"," ","A","n","a","l","y","s",
      "i","s">>
\* 'uploaded'
UPLOADED ==
    <<"u","p","l","o","a","d","e","d">>
\* 'File uploaded successfully'
UPLOAD_OK ==
    <<"F","i","l","e"," ","u","p","l","o","a","d","e","d"," ","s","u","c",
      "c","e","s","s","f","u","l","l","y">>


(***************************************************************************)
(* The response clean-up of analyze_with_gemini                            *)
(***************************************************************************)

\* The character U+0060 (grave accent). A TLA+ string cannot hold it, so this
\* one character is written as a named atom.
BT == "GRAVE"

FENCE == <<BT, BT, BT>>
FENCE_JSON == FENCE \o <<"j", "s", "o", "n">>

\* if json_text.startswith("```json"): json_text = json_text[7:]
StripJsonFence(t) == IF StartsWith(t, FENCE_JSON) THEN Slice(t, 8, Len(t)) ELSE t

\* if json_text.startswith("```"): json_text = json_text[3:]
StripOpenFence(t) == IF StartsWith(t, FENCE) THEN Slice(t, 4, Len(t)) ELSE t

\* if json_text.endswith("```"): json_text = json_text[:-3]
StripCloseFence(t) == IF EndsWith(t, FENCE) THEN Slice(t, 1, Len(t) - 3) ELSE t

\* first_brace >= 0 and last_brace >= 0
BracesFound(first_brace, last_brace) == first_brace >= 0 /\ last_brace >= 0

\* Mutant: the slice ends at the first closing brace.
SliceBraces_FirstClose(t) ==
    LET first_brace == Find(t, "{")
        last_brace  == Find(t, "}")
    IN  IF BracesFound(first_brace, last_brace)
        THEN Slice(t, first_brace + 1, last_brace + 1)
        ELSE t

\* "Find JSON boundaries": json_text[first_brace:last_brace + 1] when both
\* braces were found, json_text unchanged otherwise.
SliceBraces(t) ==
    LET first_brace == Find(t, "{")
        last_brace  == RFind(t, "}")
    IN  IF BracesFound(first_brace, last_brace)
        THEN Slice(t, first_brace + 1, last_brace + 1)
        ELSE t

\* The text handed to json.loads for a non-empty response.text.
CleanJson(text) ==
    SliceBraces(StripCloseFence(StripOpenFence(StripJsonFence(Strip(text)))))

\* result = json.loads(json_text)
ParseResponse(text) == JsonLoads(CleanJson(text))

(***************************************************************************)
(* create_sample_analysis                                                  *)
(***************************************************************************)

\* A dict literal {k1: v1, ...} given as a sequence of <<key, value>> pairs.
RECURSIVE DictOf(_)
DictOf(pairs) ==
    IF Len(pairs) = 0 THEN EmptyMap
    ELSE Put(DictOf(SubSeq(pairs, 1, Len(pairs) - 1)),
             pairs[Len(pairs)][1], pairs[Len(pairs)][2])

Segment(speaker) == JObj(DictOf(<< <<K_speaker, JStr(<<speaker>>)>> >>))

\* The literal returned by create_sample_analysis(filename) when
\* datetime.now() reads `now`. The long texts of the literal are left out:
\* a segment keeps its speaker, the engagement score its number, and the
\* summary, action items and suggestions are static placeholders.
create_sample_analysis(filename, now) ==
    JObj(DictOf(<<
        <<K_file_info, JObj(DictOf(<<
            <<K_filename, JStr(filename)>>,
            <<K_processed_at, JNum(now)>>,
            <<K_analysis_type, JStr(AI_POWERED)>> >>))>>,
        <<K_segments, JArr(<<Segment("A"), Segment("B"), Segment("A"),
                             Segment("C"), Segment("B")>>)>>,
        <<K_engagement_score, JObj(DictOf(<< <<K_score, JNum(89)>> >>))>>,
        <<K_meeting_summary, JObj(DictOf(<< <<K_score, JNum(6)>> >>))>>,
        <<K_action_items, JArr(<<JNum(1), JNum(2), JNum(3), JNum(4), JNum(5)>>)>>,
        <<K_improvement_suggestions, JArr(<<JNum(1), JNum(2), JNum(3), JNum(4),
                                            JNum(5), JNum(6), JNum(7)>>)>> >>))

\* result["analysis_type"] = tag on a dict.
Tagged(v, tag) == JObj(Put(v.o, K_analysis_type, JStr(tag)))


(***************************************************************************)
(* Inputs: the uploads clients send and the texts the provider answers     *)
(***************************************************************************)

\* Largest reading of datetime.now() (readings are 1..MaxTime).
MaxTime == 2
Times == 1..MaxTime

Reqs == {"r1", "r2"}

Endpoints == {"upload", "analyze"}

FN_m_mp4     == <<"m", ".", "m", "p", "4">>
FN_A_WAV     == <<"A", ".", "W", "A", "V">>
FN_notes_txt == <<"n", "o", "t", "e", "s", ".", "t", "x", "t">>
FN_dot_mp3   == <<".", "m", "p", "3">>
FN_none      == << >>

\* file.filename of the upload; << >> stands for a request without a file or
\* with an empty filename.
Filenames == {FN_m_mp4, FN_A_WAV, FN_notes_txt, FN_dot_mp3, FN_none}

\* len(file_content): a small file, exactly the ceiling, one byte more, 150 MB.
Sizes == {1024, MAX_FILE_SIZE, MAX_FILE_SIZE + 1, 150 * 1000 * 1000}

\* uuid.uuid4() values.
FileIds == {<<"u", "1">>, <<"u", "2">>}

\* media_file.state.name as the provider reports it.
JobStates == {"PROCESSING", "ACTIVE", "FAILED"}

Quoted(k) == <<"\"">> \o k \o <<"\"">>

\* {"segments":[],"engagement_score":{"score":85},"meeting_summary":{},
\*  "action_items":[],"improvement_suggestions":[]}
FiveKeys ==
    Quoted(K_segments) \o <<":", "[", "]", ",">>
    \o Quoted(K_engagement_score) \o <<":", "{">> \o Quoted(K_score)
    \o <<":", "8", "5", "}", ",">>
    \o Quoted(K_meeting_summary) \o <<":", "{", "}", ",">>
    \o Quoted(K_action_items) \o <<":", "[", "]", ",">>
    \o Quoted(K_improvement_suggestions) \o <<":", "[", "]">>
TEXT_full == <<"{">> \o FiveKeys \o <<"}">>

\* ```json\n{...}\n```
TEXT_fenced == FENCE_JSON \o <<"\n">> \o TEXT_full \o <<"\n">> \o FENCE

\* ```\n{...}\n```
TEXT_plain_fence == FENCE \o <<"\n">> \o TEXT_full \o <<"\n">> \o FENCE

\* Here is the result:\n```json\n{...}\n```
TEXT_wrapped ==
    <<"H", "e", "r", "e", " ", "i", "s", " ", "t", "h", "e", " ",
      "r", "e", "s", "u", "l", "t", ":", "\n">> \o TEXT_fenced

\* {"analysis_type":"fake", ...the five keys...}
TEXT_tagged ==
    <<"{">> \o Quoted(K_analysis_type) \o <<":">> \o Quoted(<<"f", "a", "k", "e">>)
    \o <<",">> \o FiveKeys \o <<"}">>

\* {"segments":[]}
TEXT_partial == <<"{">> \o Quoted(K_segments) \o <<":", "[", "]", "}">>

TEXT_number    == <<"4", "2">>
TEXT_array     == <<"[", "1", "]">>
TEXT_null      == <<"n", "u", "l", "l">>
TEXT_empty_obj == <<"{", "}">>
TEXT_empty     == << >>
TEXT_blank     == <<" ", "\n">>
TEXT_prose     == <<"S", "o", "r", "r", "y">>
\* {"segments":[
TEXT_truncated == <<"{">> \o Quoted(K_segments) \o <<":", "[">>
\* } {
TEXT_reversed  == <<"}", " ", "{">>
\* "{"   (a JSON string that holds an opening brace)
TEXT_str_brace == <<"\"", "{", "\"">>

\* response.text of the provider's answer.
Texts ==
    {TEXT_full, TEXT_fenced, TEXT_plain_fence, TEXT_wrapped, TEXT_tagged,
     TEXT_partial, TEXT_number, TEXT_array, TEXT_null, TEXT_empty_obj,
     TEXT_empty, TEXT_blank, TEXT_prose, TEXT_truncated, TEXT_reversed,
     TEXT_str_brace}

\* {"a":{"b":[1,{"c":2}]},"segments":[]}
OBJ_nested ==
    <<"{">> \o Quoted(<<"a">>) \o <<":", "{">> \o Quoted(<<"b">>)
    \o <<":", "[", "1", ",", "{">> \o Quoted(<<"c">>) \o <<":", "2", "}", "]", "}", ",">>
    \o Quoted(K_segments) \o <<":", "[", "]", "}">>

\* {"s":"}{","f":"```"}   (string values that hold braces and a fence)
OBJ_str_braces ==
    <<"{">> \o Quoted(<<"s">>) \o <<":">> \o Quoted(<<"}", "{">>) \o <<",">>
    \o Quoted(<<"f">>) \o <<":">> \o Quoted(FENCE) \o <<"}">>

\* { "segments" : [ ] }   (whitespace between the tokens)
OBJ_spaced ==
    <<"{", " ">> \o Quoted(K_segments) \o <<" ", ":", " ", "[", " ", "]", " ", "}">>

\* JSON objects that a provider answer carries inside a code fence.
InnerObjects ==
    {TEXT_full, TEXT_tagged, TEXT_partial, TEXT_empty_obj, OBJ_nested,
     OBJ_str_braces, OBJ_spaced}

\* What the provider writes before the opening fence: nothing, or a
\* conversational line.
WRAP_none == << >>
WRAP_here ==
    <<"H", "e", "r", "e", " ", "i", "s", " ", "t", "h", "e", " ",
      "r", "e", "s", "u", "l", "t", ":", "\n">>
WRAP_sure == <<" ", "S", "u", "r", "e", "!", "\n", "\n">>
Wrappers == {WRAP_none, WRAP_here, WRAP_sure}

\* The opening fence, and what separates the fences from the object.
OpenFences == {FENCE_JSON, FENCE}
FenceSeps == {<< >>, <<"\n">>}

\* wrapper, opening fence, object, closing fence, and a trailing newline
\* when the fences stand on lines of their own.
FencedText(wrapper, open, sep, obj) ==
    wrapper \o open \o sep \o obj \o sep \o FENCE \o sep

\* The answers that carry an object of InnerObjects inside a code fence.
FencedTexts ==
    {FencedText(w, f, s, j) :
        w \in Wrappers, f \in OpenFences, s \in FenceSeps, j \in InnerObjects}

\* Iteration orders of ALLOWED_EXTENSIONS explored together with the whole
\* pipeline: the written order, its reverse and one more. SpecHash explores
\* every order in SetOrders.
HashOrders ==
    {WrittenOrder,
     <<EXT_webm, EXT_avi, EXT_mov, EXT_mp4, EXT_wav, EXT_mp3>>,
     <<EXT_mp4, EXT_mp3, EXT_webm, EXT_wav, EXT_avi, EXT_mov>>}


(***************************************************************************)
(* State                                                                   *)
(***************************************************************************)

VARIABLES
    model,     \* truthiness of the module-level `model` (configure_gemini())
    extOrder,  \* the order in which this process iterates ALLOWED_EXTENSIONS
    env,       \* the run's environment: the client connections that send
               \* requests, how many requests may be open at once, and the
               \* names of the set of uploads sent (UploadsOf) and of the
               \* set of texts the provider answers with (TextsOf)
    running,   \* the request whose handler holds the event loop, or "none"
    req        \* per connection: the request being handled and its locals

vars == <<model, extOrder, env, running, req>>

NoResp == [status |-> 0, detail |-> << >>, body |-> JNull]

\* raise HTTPException(status_code=status, detail=detail)
HttpError(status, detail) == [status |-> status, detail |-> detail, body |-> JNull]

\* return <dict> from a handler
HttpOk(body) == [status |-> 200, detail |-> << >>, body |-> body]

\* A connection without a request. Of a request: pc is the handler's
\* position; endpoint, filename and size are the upload; tmp tells whether
\* the temporary file it created exists; state, wait_time, text and result
\* are the locals media_file.state.name, wait_time, response.text and result;
\* nUpload, nGenerate and polled count its provider calls (upload_file,
\* generate_content, get_file); logged is the last outcome that
\* analyze_with_gemini logged; resp is the response sent.
IdleReq ==
    [pc |-> "idle", endpoint |-> "none", filename |-> << >>, size |-> 0,
     tmp |-> FALSE, state |-> "none", wait_time |-> 0, text |-> << >>,
     result |-> JNull, resp |-> NoResp, nUpload |-> 0, nGenerate |-> 0,
     polled |-> FALSE, logged |-> "none"]

AllUploads == Endpoints \X Filenames \X Sizes

\* The uploads that clients send in a run.
\*   "all":        every upload to either endpoint
\*   "accepted":   /analyze uploads that pass validation
\*   "validation": every /upload request, and every /analyze request that
\*                 validation rejects
\*   "one":        one /analyze upload that passes validation
UploadsOf(name) ==
    CASE name = "all" -> AllUploads
      [] name = "accepted" -> {"analyze"} \X {FN_m_mp4, FN_A_WAV} \X {1024}
      [] name = "one" -> {"analyze"} \X {FN_m_mp4} \X {1024}
      [] name = "validation" ->
            {u \in Endpoints \X Filenames \X {1024, MAX_FILE_SIZE + 1} :
                \/ u[1] = "upload"
                \/ u[2] = << >>
                \/ FileExt(u[2]) \notin ALLOWED_EXTENSIONS
                \/ u[3] > MAX_FILE_SIZE}

\* The texts that the provider answers with in a run.
\*   "all": every text of Texts
\*   "two": a text that parses to a dict and one that does not parse
\*   "fenced": the fenced answers, and the objects they carry on their own
TextsOf(name) ==
    CASE name = "all" -> Texts
      [] name = "two" -> {TEXT_full, TEXT_prose}
      [] name = "fenced" -> FencedTexts \cup InnerObjects

InitCommon ==
    /\ model \in BOOLEAN
    /\ running = "none"
    /\ req = [r \in Reqs |-> IdleReq]

\* One connection, every upload and every provider text.
Init ==
    /\ InitCommon
    /\ extOrder \in HashOrders
    /\ env = [clients |-> {"r1"}, load |-> 1, uploads |-> "all", texts |-> "all"]

\* Two connections used one request at a time, so that two responses can be
\* compared.
InitPair ==
    /\ InitCommon
    /\ extOrder = WrittenOrder
    /\ env = [clients |-> Reqs, load |-> 1, uploads |-> "accepted", texts |-> "two"]

\* The validation of both endpoints in a process with any iteration order
\* of ALLOWED_EXTENSIONS.
InitHash ==
    /\ model = FALSE
    /\ running = "none"
    /\ req = [r \in Reqs |-> IdleReq]
    /\ extOrder \in SetOrders
    /\ env = [clients |-> {"r1"}, load |-> 1, uploads |-> "validation",
              texts |-> "all"]

\* One connection whose uploads pass validation; the provider answers with
\* fenced JSON objects.
InitFenced ==
    /\ InitCommon
    /\ extOrder = WrittenOrder
    /\ env = [clients |-> {"r1"}, load |-> 1, uploads |-> "accepted",
              texts |-> "fenced"]

\* Two connections whose /analyze requests are handled at the same time by
\* the one event loop.
InitLoop ==
    /\ InitCommon
    /\ extOrder = WrittenOrder
    /\ env = [clients |-> Reqs, load |-> 2, uploads |-> "one", texts |-> "two"]

(***************************************************************************)
(* Decisions of the handlers                                               *)
(***************************************************************************)

\* not file or not file.filename
NoFile(filename) == filename = << >>

\* Mutant: a name without an extension is let through.
UnsupportedType_IgnoresMissing(file_ext) ==
    file_ext # << >> /\ file_ext \notin ALLOWED_EXTENSIONS

\* file_ext not in ALLOWED_EXTENSIONS
UnsupportedType(file_ext) == file_ext \notin ALLOWED_EXTENSIONS

\* Mutant: the ceiling itself is rejected.
TooLarge_Inclusive(size) == size >= MAX_FILE_SIZE

\* len(file_content) > MAX_FILE_SIZE
TooLarge(size) == size > MAX_FILE_SIZE

\* The connections whose request is being handled.
InFlight == {r \in Reqs : req[r].pc \notin {"idle", "responded"}}

\* Mutant: the loop does not test the wait budget.
KeepWaiting_NoBudget(state, wait_time) == state # "ACTIVE"

\* while media_file.state.name != "ACTIVE" and wait_time < max_wait
KeepWaiting(state, wait_time) == state # "ACTIVE" /\ wait_time < max_wait

\* Mutant: the wait between two polls blocks the thread (as time.sleep
\* does), so the sleeping request keeps the event loop.
AsyncioSleep_Blocks(r) == r

\* await asyncio.sleep(2): who holds the event loop while request r is
\* suspended in the wait. The coroutine yields to the loop, so nobody does
\* until the loop resumes a handler.
AsyncioSleep(r) == "none"

\* The handler ends with response rp; the locals of the call are gone.
Respond(q, rp) ==
    [q EXCEPT !.pc = "responded", !.resp = rp, !.state = "none", !.wait_time = 0]

\* finally: os.unlink(tmp_file_path)
Finally(q) == [q EXCEPT !.tmp = FALSE]

\* Mutant: the timeout is raised as an HTTP error instead of returning None.
Return_RaisesTimeout(q, value, outcome) ==
    IF outcome = "timeout"
    THEN Respond([q EXCEPT !.result = value, !.logged = outcome],
                 HttpError(500, << >>))
    ELSE [q EXCEPT !.pc = "returned", !.result = value, !.logged = outcome]

\* Mutant: a generation call that failed or answered with an empty or
\* unparsable text is made a second time.
Return_RetriesGeneration(q, value, outcome) ==
    IF outcome \in {"error", "empty"} /\ q.nGenerate = 1
    THEN [q EXCEPT !.pc = "generate"]
    ELSE [q EXCEPT !.pc = "returned", !.result = value, !.logged = outcome]

\* analyze_with_gemini returns `value` after logging `outcome`.
Return(q, value, outcome) ==
    [q EXCEPT !.pc = "returned", !.result = value, !.logged = outcome]

\* {"file_id": ..., "filename": ..., "size": ..., "status": "uploaded",
\*  "message": "File uploaded successfully"}
UploadBody(file_id, filename, size) ==
    JObj(DictOf(<<
        <<K_file_id, JStr(file_id)>>,
        <<K_filename, JStr(filename)>>,
        <<K_size, JNum(size)>>,
        <<K_status, JStr(UPLOADED)>>,
        <<K_message, JStr(UPLOAD_OK)>> >>))

\* Mutant: the fallback also stamps the time at the top level of the body.
FallbackBody_Stamped(filename, now) ==
    Tagged(JObj(Put(create_sample_analysis(filename, now).o,
                    K_processed_at, JNum(now))), SAMPLE_AI)

\* sample_result = create_sample_analysis(file.filename)
\* sample_result["analysis_type"] = "Sample Analysis (AI Unavailable)"
FallbackBody(filename, now) == Tagged(create_sample_analysis(filename, now), SAMPLE_AI)

\* Mutant: an analysis_type that the result already holds is kept.
RealBody_KeepsTag(result) ==
    IF K_analysis_type \in DOMAIN result.o THEN result ELSE Tagged(result, REAL_AI)

\* result["analysis_type"] = "Real AI Analysis"
RealBody(result) == Tagged(result, REAL_AI)

(***************************************************************************)
(* Actions                                                                 *)
(***************************************************************************)

\* A client sends POST /upload or POST /analyze on connection r.
Request(r) ==
    /\ r \in env.clients
    /\ req[r].pc \in {"idle", "responded"}
    /\ Cardinality(InFlight) < env.load
    /\ \E u \in UploadsOf(env.uploads) :
          req' = [req EXCEPT ![r] = [IdleReq EXCEPT !.pc = "start",
                     !.endpoint = u[1], !.filename = u[2], !.size = u[3]]]
    /\ UNCHANGED <<model, extOrder, env, running>>

\* upload_file / analyze_file from their first line to `await file.read()`:
\* the filename and extension checks.
CheckType(r) ==
    LET q == req[r] IN
    /\ q.pc = "start"
    /\ running = "none"
    /\ req' = [req EXCEPT ![r] =
          IF NoFile(q.filename)
          THEN Respond(q, HttpError(400,
                   IF q.endpoint = "upload" THEN MSG_NoFilename ELSE MSG_NoFile))
          ELSE IF UnsupportedType(FileExt(q.filename))
          THEN Respond(q, HttpError(400, TypeDetail(extOrder)))
          ELSE [q EXCEPT !.pc = "read"]]
    /\ UNCHANGED <<model, extOrder, env, running>>

\* The handlers from the return of `await file.read()`: the size check, then
\* the response of /upload, or the `if model:` of /analyze.
CheckSize(r) ==
    LET q == req[r] IN
    /\ q.pc = "read"
    /\ running = "none"
    /\ IF TooLarge(q.size)
       THEN /\ req' = [req EXCEPT ![r] = Respond(q, HttpError(400, SizeDetail))]
            /\ UNCHANGED running
       ELSE IF q.endpoint = "upload"
       THEN /\ \E id \in FileIds :
                 req' = [req EXCEPT ![r] =
                            Respond(q, HttpOk(UploadBody(id, q.filename, q.size)))]
            /\ UNCHANGED running
       ELSE /\ req' = [req EXCEPT ![r] =
                          [q EXCEPT !.pc = IF model THEN "gemini" ELSE "fallback"]]
            /\ running' = r
    /\ UNCHANGED <<model, extOrder, env>>

\* analyze_with_gemini: the NamedTemporaryFile(delete=False) block. The file may
\* fail to be created, or the write may fail after it was created; either
\* exception reaches the outer `except Exception`, outside the inner
\* try/finally.
CreateTemp(r) ==
    LET q == req[r] IN
    /\ q.pc = "gemini"
    /\ running = r
    /\ \/ req' = [req EXCEPT ![r] = [q EXCEPT !.pc = "upload", !.tmp = TRUE]]
       \/ req' = [req EXCEPT ![r] = Return(q, JNull, "error")]
       \/ req' = [req EXCEPT ![r] = Return([q EXCEPT !.tmp = TRUE], JNull, "error")]
    /\ UNCHANGED <<model, extOrder, env, running>>

\* genai.upload_file(...), then the first test of the wait loop: the handler
\* suspends in asyncio.sleep(2) when the loop is entered.
Upload(r) ==
    LET q == [req[r] EXCEPT !.nUpload = @ + 1] IN
    /\ req[r].pc = "upload"
    /\ running = r
    /\ \/ /\ req' = [req EXCEPT ![r] = Return(Finally(q), JNull, "error")]
          /\ UNCHANGED running
       \/ \E s \in JobStates :
             IF KeepWaiting(s, q.wait_time)
             THEN /\ req' = [req EXCEPT ![r] = [q EXCEPT !.pc = "sleep", !.state = s]]
                  /\ running' = AsyncioSleep(r)
             ELSE IF s # "ACTIVE"
             THEN /\ req' = [req EXCEPT ![r] =
                                Return(Finally([q EXCEPT !.state = s]), JNull, "timeout")]
                  /\ UNCHANGED running
             ELSE /\ req' = [req EXCEPT ![r] = [q EXCEPT !.pc = "generate", !.state = s]]
                  /\ UNCHANGED running
    /\ UNCHANGED <<model, extOrder, env>>

\* The handler resumes from asyncio.sleep(2): wait_time += 2,
\* genai.get_file(...), the loop test, and after the loop the test for
\* "File processing timeout".
Poll(r) ==
    LET q == [req[r] EXCEPT !.wait_time = @ + POLL_INTERVAL, !.polled = TRUE] IN
    /\ req[r].pc = "sleep"
    /\ running = AsyncioSleep(r)
    /\ \/ /\ req' = [req EXCEPT ![r] = Return(Finally(q), JNull, "error")]
          /\ running' = r
       \/ \E s \in JobStates :
             IF KeepWaiting(s, q.wait_time)
             THEN /\ req' = [req EXCEPT ![r] = [q EXCEPT !.state = s]]
                  /\ UNCHANGED running
             ELSE IF s # "ACTIVE"
             THEN /\ req' = [req EXCEPT ![r] =
                                Return(Finally([q EXCEPT !.state = s]), JNull, "timeout")]
                  /\ running' = r
             ELSE /\ req' = [req EXCEPT ![r] = [q EXCEPT !.pc = "generate", !.state = s]]
                  /\ running' = r
    /\ UNCHANGED <<model, extOrder, env>>

\* model.generate_content(...): it raises, or answers with a text.
Generate(r) ==
    LET q == [req[r] EXCEPT !.nGenerate = @ + 1] IN
    /\ req[r].pc = "generate"
    /\ running = r
    /\ \/ req' = [req EXCEPT ![r] = Return(Finally(q), JNull, "error")]
       \/ \E t \in TextsOf(env.texts) :
             req' = [req EXCEPT ![r] = [q EXCEPT !.pc = "normalize", !.text = t]]
    /\ UNCHANGED <<model, extOrder, env, running>>

\* From `if not response.text:` to `return result`, and the finally block.
Normalize(r) ==
    LET q == req[r]
        parsed == ParseResponse(q.text)
    IN
    /\ q.pc = "normalize"
    /\ running = r
    /\ req' = [req EXCEPT ![r] =
          IF q.text = << >> THEN Return(Finally(q), JNull, "empty")
          ELSE IF parsed.ok THEN Return(Finally(q), parsed.v, "parsed")
          ELSE Return(Finally(q), JNull, "error")]
    /\ UNCHANGED <<model, extOrder, env, running>>

\* analyze_file after `result = await analyze_with_gemini(...)`: a truthy
\* result is tagged and returned; tagging a value that is no dict raises
\* TypeError, which the `except Exception` around the call catches.
Tag(r) ==
    LET q == req[r] IN
    /\ q.pc = "returned"
    /\ running = r
    /\ IF Truthy(q.result) /\ q.result.t = "dict"
       THEN /\ req' = [req EXCEPT ![r] = Respond(q, HttpOk(RealBody(q.result)))]
            /\ running' = "none"
       ELSE /\ req' = [req EXCEPT ![r] = [q EXCEPT !.pc = "fallback"]]
            /\ UNCHANGED running
    /\ UNCHANGED <<model, extOrder, env>>

\* "Fallback to sample analysis".
Fallback(r) ==
    LET q == req[r] IN
    /\ q.pc = "fallback"
    /\ running = r
    /\ \E now \in Times :
          req' = [req EXCEPT ![r] = Respond(q, HttpOk(FallbackBody(q.filename, now)))]
    /\ running' = "none"
    /\ UNCHANGED <<model, extOrder, env>>

Next ==
    \E r \in Reqs :
        \/ Request(r)
        \/ CheckType(r)
        \/ CheckSize(r)
        \/ CreateTemp(r)
        \/ Upload(r)
        \/ Poll(r)
        \/ Generate(r)
        \/ Normalize(r)
        \/ Tag(r)
        \/ Fallback(r)

Spec == Init /\ [][Next]_vars

SpecPair == InitPair /\ [][Next]_vars

\* The steps of the handlers up to the end of validation.
NextHash ==
    \E r \in Reqs :
        \/ Request(r)
        \/ CheckType(r)
        \/ CheckSize(r)

SpecHash == InitHash /\ [][NextHash]_vars

SpecFenced == InitFenced /\ [][Next]_vars

SpecLoop == InitLoop /\ [][Next]_vars


(***************************************************************************)
(* Properties                                                              *)
(***************************************************************************)

Done(q) == q.pc = "responded"

\* The request passed the validation of its handler.
PassedValidation(q) ==
    /\ q.filename # << >>
    /\ FileExt(q.filename) \in ALLOWED_EXTENSIONS
    /\ q.size <= MAX_FILE_SIZE

\* The request made no provider call (upload, status poll, generation).
NoProviderCall(q) == q.nUpload = 0 /\ q.nGenerate = 0 /\ ~q.polled

\* The top-level analysis_type of a response body that is a dict, << >> when
\* the body has none.
TagOf(rp) ==
    IF rp.body.t = "dict" /\ K_analysis_type \in DOMAIN rp.body.o
       /\ rp.body.o[K_analysis_type].t = "str"
    THEN rp.body.o[K_analysis_type].s
    ELSE << >>

\* Dict m without key k.
Without(m, k) == [x \in (DOMAIN m) \ {k} |-> m[x]]

\* The response body is the sample payload for the request's filename, up to
\* its top-level analysis_type.
IsSampleBody(q) ==
    /\ q.resp.body.t = "dict"
    /\ \E now \in Times :
          Without(q.resp.body.o, K_analysis_type)
              = Without(create_sample_analysis(q.filename, now).o, K_analysis_type)

\* The response body is the dict that the provider's text of this request
\* parses to, up to its top-level analysis_type.
IsParsedBody(q) ==
    /\ q.nGenerate > 0
    /\ q.text # << >>
    /\ q.resp.body.t = "dict"
    /\ LET p == JsonLoads(CleanJson(q.text))
       IN  /\ p.ok
           /\ p.v.t = "dict"
           /\ Without(q.resp.body.o, K_analysis_type) = Without(p.v.o, K_analysis_type)

\* C1: an /analyze request that passed validation and whose provider path
\* failed (an exception, a timeout, an empty text, a text that does not
\* parse) never ends with an error: its response is a 200 carrying the
\* sample analysis tagged "Sample Analysis (AI Unavailable)".
C1_ProviderFailureFallsBack ==
    \A r \in Reqs :
        LET q == req[r] IN
        (/\ q.endpoint = "analyze"
         /\ PassedValidation(q)
         /\ q.logged \in {"error", "timeout", "empty"})
        => /\ q.pc \in {"returned", "fallback", "responded"}
           /\ q.result = JNull
           /\ Done(q) => /\ q.resp.status = 200
                         /\ TagOf(q.resp) = SAMPLE_AI
                         /\ IsSampleBody(q)

\* C1 witness: the provider answered with a text that does not parse, and
\* the request was answered with the tagged sample analysis.
C1_Witness ==
    \E r \in Reqs :
        /\ Done(req[r]) /\ req[r].logged = "error" /\ req[r].nGenerate = 1
        /\ req[r].text = TEXT_truncated
        /\ TagOf(req[r].resp) = SAMPLE_AI

\* C2 (as claimed): every 200 response of /analyze holds the five top-level
\* keys and analysis_type.
C2_AllKeysPresent ==
    \A r \in Reqs :
        LET q == req[r] IN
        (Done(q) /\ q.endpoint = "analyze" /\ q.resp.status = 200)
        => /\ q.resp.body.t = "dict"
           /\ {K_segments, K_engagement_score, K_meeting_summary, K_action_items,
               K_improvement_suggestions, K_analysis_type} \subseteq DOMAIN q.resp.body.o

\* C3: a request whose extension is outside the allow-set makes no provider
\* call and creates no temporary file at any point, never gets past the type
\* check, and ends with status 400, on both endpoints.
C3_UnsupportedTypeRejected ==
    \A r \in Reqs :
        LET q == req[r] IN
        (q.pc # "idle" /\ FileExt(q.filename) \notin ALLOWED_EXTENSIONS)
        => /\ NoProviderCall(q)
           /\ ~q.tmp
           /\ q.pc \in {"start", "responded"}
           /\ Done(q) => q.resp.status = 400

\* C3 witness: notes.txt sent to /analyze was answered with 400.
C3_Witness ==
    \E r \in Reqs :
        /\ Done(req[r]) /\ req[r].endpoint = "analyze"
        /\ req[r].filename = FN_notes_txt /\ req[r].resp.status = 400

\* C4: a request whose size exceeds 100 MiB makes no provider call and
\* creates no temporary file at any point and ends with status 400, on both
\* endpoints; a request of exactly 100 MiB with an allowed extension is
\* answered with 200.
C4_TooLargeRejected ==
    \A r \in Reqs :
        LET q == req[r] IN
        /\ (q.pc # "idle" /\ q.size > 100 * 1024 * 1024)
           => /\ NoProviderCall(q)
              /\ ~q.tmp
              /\ q.pc \in {"start", "read", "responded"}
              /\ Done(q) => q.resp.status = 400
        /\ (Done(q) /\ q.size = 100 * 1024 * 1024
            /\ FileExt(q.filename) \in ALLOWED_EXTENSIONS)
           => q.resp.status = 200

\* C4 witness: a 150 MB .mp4 sent to /analyze was answered with 400.
C4_Witness ==
    \E r \in Reqs :
        /\ Done(req[r]) /\ req[r].endpoint = "analyze"
        /\ req[r].filename = FN_m_mp4 /\ req[r].size = 150 * 1000 * 1000
        /\ req[r].resp.status = 400 /\ req[r].resp.detail = SizeDetail

\* C5: in every 200 response of /analyze the top-level analysis_type is
\* "Real AI Analysis" exactly when the body is the dict parsed from the
\* provider's text of this request, and "Sample Analysis (AI Unavailable)"
\* exactly when the body is the sample payload; it is never anything else.
C5_TagDisclosesProvenance ==
    \A r \in Reqs :
        LET q == req[r] IN
        (Done(q) /\ q.endpoint = "analyze" /\ q.resp.status = 200)
        => /\ TagOf(q.resp) \in {REAL_AI, SAMPLE_AI}
           /\ TagOf(q.resp) = REAL_AI <=> IsParsedBody(q)
           /\ TagOf(q.resp) = SAMPLE_AI <=> IsSampleBody(q)

\* C5 witness: the provider's JSON held its own analysis_type and the
\* response is tagged "Real AI Analysis".
C5_Witness ==
    \E r \in Reqs :
        /\ Done(req[r]) /\ req[r].text = TEXT_tagged
        /\ TagOf(req[r].resp) = REAL_AI

\* C6: the wait of the poll loop never exceeds the budget plus one poll
\* interval, a request suspended in the loop has budget left and a job that
\* is not ACTIVE, and a request whose job did not become ACTIVE within the
\* budget makes no generation call and ends with the fallback response.
C6_TimeoutIsBounded ==
    \A r \in Reqs :
        LET q == req[r] IN
        /\ q.wait_time <= max_wait + POLL_INTERVAL
        /\ q.wait_time % POLL_INTERVAL = 0
        /\ q.pc = "sleep" => q.wait_time < max_wait /\ q.state # "ACTIVE"
        /\ q.logged = "timeout"
           => /\ q.nGenerate = 0
              /\ q.pc \in {"returned", "fallback", "responded"}
              /\ q.pc # "responded" => q.wait_time >= max_wait /\ q.state # "ACTIVE"
              /\ Done(q) => q.resp.status = 200 /\ TagOf(q.resp) = SAMPLE_AI

\* C6 witness: a request whose job stayed FAILED was answered with the
\* fallback after the timeout.
C6_Witness ==
    \E r \in Reqs :
        /\ Done(req[r]) /\ req[r].logged = "timeout" /\ req[r].polled
        /\ TagOf(req[r].resp) = SAMPLE_AI

\* The error text that C7 states.
C7_Message ==
    <<"F","i","l","e"," ","t","y","p","e"," ","n","o","t"," ","s","u","p",
      "p","o","r","t","e","d","."," ","A","l","l","o","w","e","d",":"," ",
      "m","p","3",","," ","w","a","v",","," ","m","p","4",","," ","m","o",
      "v",","," ","a","v","i",","," ","w","e","b","m">>

\* C7 (as claimed): notes.txt is answered with 400 and exactly the error
\* text above, in every process.
C7_FixedErrorText ==
    \A r \in Reqs :
        (Done(req[r]) /\ req[r].filename = FN_notes_txt)
        => /\ req[r].resp.status = 400
           /\ req[r].resp.detail = C7_Message

\* The body without file_info.processed_at.
WithoutTimestamp(body) ==
    IF body.t = "dict" /\ K_file_info \in DOMAIN body.o
    THEN Put(body.o, K_file_info,
             JObj(Without(body.o[K_file_info].o, K_processed_at)))
    ELSE body.o

\* C8: two /analyze responses for the same file that both carry the sample
\* analysis are equal except for file_info.processed_at.
C8_FallbackIdempotent ==
    \A r1, r2 \in Reqs :
        LET q1 == req[r1]
            q2 == req[r2]
        IN  (/\ Done(q1) /\ Done(q2)
             /\ q1.endpoint = "analyze" /\ q2.endpoint = "analyze"
             /\ q1.filename = q2.filename /\ q1.size = q2.size
             /\ TagOf(q1.resp) = SAMPLE_AI /\ TagOf(q2.resp) = SAMPLE_AI)
            => /\ q1.resp.status = q2.resp.status
               /\ WithoutTimestamp(q1.resp.body) = WithoutTimestamp(q2.resp.body)

\* C8 witness: two fallback responses for the same file with different
\* timestamps, one for a missing model or failed provider path each time.
C8_Witness ==
    /\ Done(req["r1"]) /\ Done(req["r2"])
    /\ req["r1"].filename = FN_A_WAV /\ req["r2"].filename = FN_A_WAV
    /\ TagOf(req["r1"].resp) = SAMPLE_AI /\ TagOf(req["r2"].resp) = SAMPLE_AI
    /\ req["r1"].resp.body # req["r2"].resp.body

\* C9 (as claimed): after a request has ended, the temporary file it created
\* no longer exists.
C9_TempFileReleased ==
    \A r \in Reqs : Done(req[r]) => ~req[r].tmp

\* C10 (as claimed): analyze_with_gemini returns a parsed value only for a
\* text that, after fence stripping, holds both a "{" and a "}".
C10_NoBraceIsParseError ==
    \A r \in Reqs :
        LET q == req[r]
            t == StripCloseFence(StripOpenFence(StripJsonFence(Strip(q.text))))
        IN  (q.pc = "returned" /\ q.logged = "parsed")
            => Find(t, "{") >= 0 /\ RFind(t, "}") >= 0

\* The value at `key` of a dict value is the empty list.
EmptyListAt(v, key) ==
    v.t = "dict" /\ key \in DOMAIN v.o /\ v.o[key] = JArr(<< >>)

\* C11: when the provider's text is a well-formed JSON object inside a code
\* fence (opened by the json fence or the plain one, closed by a fence),
\* with or without a conversational line before the opening fence,
\* analyze_with_gemini returns the value that json.loads gives for the
\* object on its own; an object with empty segments comes back with empty
\* segments.
C11_FencedRoundTrip ==
    \A r \in Reqs :
        LET q == req[r] IN
        \A w \in Wrappers, f \in OpenFences, s \in FenceSeps, j \in InnerObjects :
            (/\ q.pc = "returned"
             /\ q.nGenerate = 1
             /\ q.text = FencedText(w, f, s, j)
             /\ JsonLoads(j).ok /\ JsonLoads(j).v.t = "dict")
            => /\ q.logged = "parsed"
               /\ q.result = JsonLoads(j).v
               /\ EmptyListAt(JsonLoads(j).v, K_segments)
                  => EmptyListAt(q.result, K_segments)

\* C11 witness: "Here is the result:", a json fence and a nested object with
\* empty segments came back as that object.
C11_Witness ==
    \E r \in Reqs :
        /\ req[r].pc = "returned" /\ req[r].logged = "parsed"
        /\ req[r].text = FencedText(WRAP_here, FENCE_JSON, <<"\n">>, OBJ_nested)
        /\ req[r].result = JsonLoads(OBJ_nested).v
        /\ EmptyListAt(req[r].result, K_segments)
        /\ DOMAIN req[r].result.o = {<<"a">>, K_segments}

\* The event loop can run the next step of the handler of connection r:
\* the handler holds the loop, or the loop is free and the handler is at its
\* start or suspended in an await (file.read(), asyncio.sleep(2)).
Runnable(r) ==
    \/ running = r
    \/ running = "none" /\ req[r].pc \in {"start", "read", "sleep"}

\* A request suspended in the wait between two polls does not hold the
\* event loop, and the handler of every other request in flight can be run.
SleepYields ==
    \A r \in Reqs :
        req[r].pc = "sleep"
        => /\ running # r
           /\ \A r2 \in InFlight \ {r} : Runnable(r2)

\* A step changes the request and the locals (temporary file, job state,
\* wait counter and the rest) of one connection only.
OneRequestChanges ==
    \E r \in Reqs : \A r2 \in Reqs \ {r} : req'[r2] = req[r2]

\* C12: with two /analyze requests in flight on the one event loop, a
\* request in the wait between two polls has yielded the loop, so that the
\* other request can take its next step, and no step of one request changes
\* the temporary file, job state or wait counter of the other.
C12_PollWaitYields == []SleepYields /\ [][OneRequestChanges]_vars

\* C12 witness: both requests are suspended in their poll loops at once,
\* each with its own temporary file, job state and wait counter.
C12_Witness ==
    /\ running = "none"
    /\ req["r1"].pc = "sleep" /\ req["r2"].pc = "sleep"
    /\ req["r1"].tmp /\ req["r2"].tmp
    /\ req["r1"].nUpload = 1 /\ req["r2"].nUpload = 1
    /\ req["r1"].wait_time = 4 /\ req["r2"].wait_time = 2
    /\ req["r1"].state = "PROCESSING" /\ req["r2"].state = "FAILED"

\* C13: a request calls the provider's upload at most once and its
\* generation at most once; generation is called only after an upload and
\* with the job seen ACTIVE; only the status poll repeats (once per
\* POLL_INTERVAL of wait); and a request whose provider path failed is past
\* analyze_with_gemini, on its way to the fallback response, with no further
\* provider call ahead of it.
C13_NoRetry ==
    \A r \in Reqs :
        LET q == req[r] IN
        /\ q.nUpload <= 1
        /\ q.nGenerate <= 1
        /\ q.nGenerate = 1 => q.nUpload = 1
        /\ (q.nGenerate = 1 /\ ~Done(q)) => q.state = "ACTIVE"
        /\ q.pc \in {"generate", "normalize"} => q.state = "ACTIVE" /\ q.nUpload = 1
        /\ q.polled => q.nUpload = 1
        /\ q.logged \in {"error", "timeout", "empty"}
           => /\ q.pc \in {"returned", "fallback", "responded"}
              /\ q.result = JNull
              /\ Done(q) => TagOf(q.resp) = SAMPLE_AI

\* C13 witness: after one upload, two status polls and one generation call
\* that failed, the request is at the fallback.
C13_Witness ==
    \E r \in Reqs :
        /\ req[r].pc = "fallback" /\ req[r].logged = "error"
        /\ req[r].nUpload = 1 /\ req[r].nGenerate = 1
        /\ req[r].wait_time = 2 * POLL_INTERVAL

=============================================================================
